---- MODULE Spec2Model ----
(***************************************************************************)
(* Model of the harmony gateway: the session controller of websocket.rs    *)
(* (process_events) running against the presence store of presence.rs.     *)
(***************************************************************************)
EXTENDS Integers, Sequences, FiniteSets, TLC

\* ---------------------------------------------------------------- bounds
NumSessions == 2
MaxRun == 1
NumChannels == 3
NumDeliveries == 2
MaxPings == 1
NumCallers == 3
MaxLen == 4
MaxFrames == 102
MaxTicks == 2
NumPubUsers == 4
NumNotifyIds == 3
MaxReceivers == 2

\* ------------------------------------------------------------- constants
CloseNormal == 1000
CloseUnsupported == 1003
CloseAbnormal == 1006
ClosePolicy == 1008
CloseError == 1011
\* Quota::per_minute(100): a burst of 100 cells, one more every 60 s / 100
RateQuota == 100

Sessions == 1..NumSessions
Users == {1, 2}
\* sessions 1 and 2 belong to user 1, every further session to user 2
UserOf(s) == IF s <= 2 THEN 1 ELSE 2
Observers(u) == Users \ {u}

Statuses == {"Online", "Offline"}
Devices == {"Desktop", "Mobile", "Web"}
\* the devices the modelled clients identify with
IdentifyDevices == {"Desktop", "Mobile"}

\* the sentinel remove_session writes with LSET before LREM
REMOVED == [sid |-> 0, device |-> "REMOVED", since |-> 0]

VARIABLES
    store,      \* session-{user_id}: list of encoded PresenceSession records
    presence,   \* presence-{user_id}: the encoded status, NoKey when no key
    published,  \* per user, the PresenceUpdate events of its last presence change
    pc,         \* position of each process_events task
    out,        \* frames written to each connection's socket, in order
    ident,      \* status and device of the Identify frame
    innerRes,   \* result of the inner async block: none, ok, err
    rsSnap,     \* remove_session: the list read by get_sessions
    inserted,   \* insert_session returned Ok for this session
    rsRes,      \* remove_session of the cleanup: none, called, ok, err
    nRun,       \* frames handled in Running
    \* upstream_listener of one running session (websocket.rs) and the
    \* handle tasks of recv.rs
    hidden,     \* hidden_channels
    binds,      \* exchanges the session queue is bound to with key "all"
    upPc,       \* upstream_listener: run or end
    upLast,     \* the delivery processed last and whether it was forwarded
    \* the pipelines of one session around its send-queue (recv.rs, client.rs)
    dl,         \* the deliveries received from the consumer, in arrival order
    txq,        \* the send-queue (flume channel)
    enq,        \* every frame enqueued so far, in enqueue order
    written,    \* the frames written to the WebSocket by the egress task
    sockOpen,   \* the egress task still holds the receiver and the socket
    cliPc,      \* client_rx: run or end
    nPing,      \* Ping frames client_rx has dispatched
    queue,      \* per session, its broker queue: none, partial or consuming
    \* calls of presence.rs on one session-{user_id} list, command by command
    kv,         \* the list
    opPc,       \* per caller: absent, present, rsDecide, rsLrem, removed, failed
    opSnap,     \* remove_session: the list get_sessions returned
    devOut,     \* the last get_devices call: the list it read and its result
    \* the rate limiter of client_rx
    rlTokens,   \* cells the limiter can still admit at once
    rlFrames,   \* frames client_rx has read
    rlTicks,    \* replenish intervals elapsed since the limiter was created
    \* the server task of main.rs
    mainPc,     \* accepting, or exited once main has returned
    \* calls of update_presence and get_presence on the presence keys
    lastStatus, \* per user, the status of the last update_presence, or none
    gotPresence, \* the last get_presence call and what it returned
    \* one call of publish_presence_change
    pubTodo,    \* the user ids the loop has still to publish to
    pubLog,     \* every basic_publish so far, in order
    pubCall,    \* its arguments, the observers the query gives, its progress
    \* handle_upstream of one session (upstream.rs)
    huPc,       \* consume, sent, ack or end
    huCur,      \* the delivery being handled
    huQ,        \* the events sent on tx, in order
    huBinds,    \* the bindings of the session queue: exchange and routing key
    huAcks,     \* deliveries whose ack task was spawned
    huGuilds,   \* the guilds get_guilds returned at setup
    \* ws_listener of websocket.rs
    wsLast,     \* per session, the frame a running ws_listener handled last
    \* the shutdown notifier (shutdown_notifier.rs)
    snMap,      \* the session ids a sender is registered for
    snRx,       \* per session id, the live receivers of its watch channel
    snVal,      \* per session id, the value its receivers see
    snLast      \* the last call of shutdown and what it returned

lifeVars == <<store, presence, published, pc, out, ident, innerRes, rsSnap,
              inserted, rsRes, nRun, queue>>
upVars == <<hidden, binds, upPc, upLast>>
pipeVars == <<dl, txq, enq, written, sockOpen, cliPc, nPing>>
opVars == <<kv, opPc, opSnap, devOut>>
rateVars == <<rlTokens, rlFrames, rlTicks>>
mainVars == <<mainPc>>
presVars == <<lastStatus, gotPresence>>
pubVars == <<pubTodo, pubLog, pubCall>>
huVars == <<huPc, huCur, huQ, huBinds, huAcks, huGuilds>>
wsVars == <<wsLast>>
snVars == <<snMap, snRx, snVal, snLast>>
extVars == <<mainVars, presVars, pubVars, huVars, wsVars, snVars>>
vars == <<lifeVars, upVars, pipeVars, opVars, rateVars, extVars>>

\* ------------------------------------------------------------ frames
Frame(t) == [t |-> t, code |-> 0, reason |-> ""]
CloseFrame(code, reason) == [t |-> "Close", code |-> code, reason |-> reason]
IsControl(f) == f.t = "Close"

Send(s, f) == out' = [out EXCEPT ![s] = Append(@, f)]

\* ------------------------------------------------------ presence store
\* get_sessions: LRANGE 0 -1 then bincode-decode every element; the sentinel
\* does not decode as a PresenceSession
GetSessionsOk(list) == \A i \in DOMAIN list : list[i] # REMOVED

DeviceBit(d) == {d}

\* the loop breaks as soon as two flags are set
RECURSIVE GetDevicesFromBreaksAtTwo(_, _, _)
GetDevicesFromBreaksAtTwo(list, i, devices) ==
    IF i > Len(list) THEN devices
    ELSE LET d == devices \cup DeviceBit(list[i].device)
         IN IF Cardinality(d) >= 2 THEN d
            ELSE GetDevicesFromBreaksAtTwo(list, i + 1, d)

\* get_devices: insert the flag of every session, break when all are set
RECURSIVE GetDevicesFrom(_, _, _)
GetDevicesFrom(list, i, devices) ==
    IF i > Len(list) THEN devices
    ELSE LET d == devices \cup DeviceBit(list[i].device)
         IN IF d = Devices THEN d ELSE GetDevicesFrom(list, i + 1, d)

GetDevices(list) == GetDevicesFrom(list, 1, {})

\* get_first_session: LINDEX key 0; 0 stands for None
GetFirstSince(list) == IF Len(list) = 0 THEN 0 ELSE list[1].since

\* insert_session: RPUSH
RPush(list, rec) == Append(list, rec)

\* the index remove_session computes with its fold (0-based in the code)
RECURSIVE FoldIndex(_, _, _, _)
FoldIndex(list, sid, i, acc) ==
    IF i > Len(list) THEN acc
    ELSE FoldIndex(list, sid, i + 1, IF list[i].sid = sid THEN i - 1 ELSE acc)

\* the fold counts positions from one
RemoveIndexOneBased(list, sid) == FoldIndex(list, sid, 1, 0) + 1

RemoveIndex(list, sid) == FoldIndex(list, sid, 1, 0)

\* LSET key index value: an error when the key is missing or index is out
\* of range
LSetOk(list, index) == index < Len(list)
LSet(list, index, v) == [list EXCEPT ![index + 1] = v]

\* LREM key 1 value: removes the first element equal to value
RECURSIVE LRem1(_, _)
LRem1(list, v) ==
    IF list = <<>> THEN <<>>
    ELSE IF Head(list) = v THEN Tail(list)
    ELSE <<Head(list)>> \o LRem1(Tail(list), v)

\* PresenceStatus and the variant index bincode writes for it
PresenceStatuses == {"Online", "Idle", "Dnd", "Offline"}
StatusTag(status) ==
    CASE status = "Online" -> 0
      [] status = "Idle" -> 1
      [] status = "Dnd" -> 2
      [] status = "Offline" -> 3

\* bincode::encode_to_vec(status, CONFIG): the variant index as one byte
EncodeStatus(status) == <<StatusTag(status)>>

\* bincode::decode_from_slice(&r, CONFIG).0
DecodeStatus(bytes) ==
    CASE bytes[1] = 0 -> "Online"
      [] bytes[1] = 1 -> "Idle"
      [] bytes[1] = 2 -> "Dnd"
      [] bytes[1] = 3 -> "Offline"

\* GET of a key that does not exist
NoKey == <<>>

\* Offline is stored like every other status
UpdatePresenceKeepsOffline(u, status) ==
    presence' = [presence EXCEPT ![u] = EncodeStatus(status)]

\* update_presence: DEL when the status is Offline, SET of the encoded status
\* otherwise
UpdatePresence(u, status) ==
    presence' = [presence EXCEPT ![u] =
                    IF status = "Offline" THEN NoKey ELSE EncodeStatus(status)]

\* get_presence: Offline when GET gives nothing, the decoded value otherwise
GetPresence(v) == IF v = NoKey THEN "Offline" ELSE DecodeStatus(v)

\* publish_presence_change: one PresenceUpdate per observer and one for the
\* user itself, routing key = recipient id
PresenceEvents(u, status, devices, since) ==
    {[to |-> r, user |-> u, status |-> status, devices |-> devices, since |-> since] :
        r \in Observers(u) \cup {u}}

\* ------------------------------------------------------ broker events
\* guild 10 is owned by another user, guild 20 by the session user
Guilds == {10, 20}
OwnedGuilds == {20}
DmIds == {30}
Channels == 1..NumChannels
GuildOf(c) == IF c <= 2 THEN 10 ELSE 20
ChannelsOf(g) == {c \in Channels : GuildOf(c) = g}
Overwrites == {"none", "allow", "deny"}

Event(t, id, ow) == [t |-> t, id |-> id, ow |-> ow]

\* the OutboundMessage variants a delivery can carry; Undecodable is a
\* payload bincode does not decode
UpEvents ==
    {Event(t, c, ow) : t \in {"ChannelCreate", "ChannelUpdate"},
                       c \in Channels, ow \in Overwrites}
    \cup {Event("ChannelCreateDm", c, "none") : c \in DmIds}
    \cup {Event("ChannelDelete", c, "none") : c \in Channels \cup DmIds}
    \cup {Event(t, g, "none") : t \in {"GuildCreate", "GuildRemove",
                                       "RoleCreate", "RoleUpdate"}, g \in Guilds}
    \cup {Event(t, c, "none") : t \in {"MessageCreate", "MessageUpdate",
                                       "MessageDelete"}, c \in Channels}
    \cup {Event("PresenceUpdate", 0, "none"), Event("Undecodable", 0, "none")}

NoDelivery == [ev |-> Event("None", 0, "none"), fwd |-> FALSE,
               calc |-> {}, view |-> {}]

\* ---------------------------------------------------- session controller
\* a failure of inner leaves process_events at once
AfterInnerErrReturns(res) == IF res = "err" THEN "Closed" ELSE "Cleanup"

\* the inner async block is awaited and the cleanup follows whatever its result
AfterInner(res) == "Cleanup"

\* the consumer is already drained while Ready is still being built
UpstreamActiveEarly(s) == pc[s] \in {"Ready", "Running"}

\* upstream_listener and ws_listener exist only after Ready and the setup
UpstreamActive(s) == pc[s] = "Running"

NoIdent == [status |-> "Offline", device |-> "Desktop"]

\* a failed handshake falls through to the cleanup of an established session
AfterHandshakeFailureCleansUp == "Cleanup"

\* every failure before inner returns from process_events, past the cleanup
AfterHandshakeFailure == "Closed"

\* the timeout is reported as an internal error
TimeoutCloseAsError ==
    CloseFrame(CloseError, "expected to receive identify event within 5 seconds")

\* the Close frame sent when timeout(5 s, rx.try_next()) gives no frame
TimeoutClose ==
    CloseFrame(ClosePolicy, "expected to receive identify event within 5 seconds")

\* status and device are not read again once inner has ended
EndInner(s, res) ==
    /\ innerRes' = [innerRes EXCEPT ![s] = res]
    /\ pc' = [pc EXCEPT ![s] = AfterInner(res)]
    /\ ident' = [ident EXCEPT ![s] = NoIdent]

\* the store is empty and no task has done anything
LifeFresh ==
    /\ store = [u \in Users |-> <<>>]
    /\ presence = [u \in Users |-> NoKey]
    /\ published = [u \in Users |-> {}]
    /\ out = [s \in Sessions |-> <<>>]
    /\ ident = [s \in Sessions |-> NoIdent]
    /\ innerRes = [s \in Sessions |-> "none"]
    /\ rsSnap = [s \in Sessions |-> <<>>]
    /\ inserted = [s \in Sessions |-> FALSE]
    /\ rsRes = [s \in Sessions |-> "none"]
    /\ nRun = [s \in Sessions |-> 0]
    /\ queue = [s \in Sessions |-> "none"]

\* every connection was accepted and its task is about to send Hello
LifeInit ==
    /\ LifeFresh
    /\ pc = [s \in Sessions |-> "Accepted"]

\* no upstream_listener is running
UpIdle ==
    /\ hidden = {}
    /\ binds = {}
    /\ upPc = "end"
    /\ upLast = NoDelivery

\* no pipeline is running
PipeIdle ==
    /\ dl = <<>>
    /\ txq = <<>>
    /\ enq = <<>>
    /\ written = <<>>
    /\ sockOpen = FALSE
    /\ cliPc = "end"
    /\ nPing = 0

\* no call on the stand-alone session list is in progress
OpIdle ==
    /\ kv = <<>>
    /\ opPc = [c \in {} |-> "absent"]
    /\ opSnap = [c \in {} |-> <<>>]
    /\ devOut = [called |-> FALSE, list |-> <<>>, ok |-> TRUE, devices |-> {}]

\* no limiter exists
RateIdle ==
    /\ rlTokens = 0
    /\ rlFrames = 0
    /\ rlTicks = 0

\* main is in its accept loop
MainIdle == mainPc = "accepting"

NoGet == [called |-> FALSE, user |-> 0, status |-> "Offline", last |-> "none"]

\* no stand-alone presence call was made
PresIdle ==
    /\ lastStatus = [u \in Users |-> "none"]
    /\ gotPresence = NoGet

NoCall == [st |-> "idle", user |-> 0, obs |-> <<>>, status |-> "Offline"]

\* no publish_presence_change call is traced
PubIdle ==
    /\ pubTodo = <<>>
    /\ pubLog = <<>>
    /\ pubCall = NoCall

\* no handle_upstream is running
HuIdle ==
    /\ huPc = "end"
    /\ huCur = Event("None", 0, "none")
    /\ huQ = <<>>
    /\ huBinds = {}
    /\ huAcks = 0
    /\ huGuilds = {}

\* what ws_listener holds after a frame while it runs: the frame's kind, how
\* the handling ended, and the status and online_since of the presence built
WsHandled(kind, res, status, since) ==
    [kind |-> kind, res |-> res, status |-> status, since |-> since]

NoFrame == WsHandled("none", "none", "none", 0)

\* no ws_listener has read a frame
WsIdle == wsLast = [s \in Sessions |-> NoFrame]

NotifyIds == 1..NumNotifyIds

\* ShutdownNotifier::new(): the map is empty
SnIdle ==
    /\ snMap = {}
    /\ snRx = [id \in NotifyIds |-> 0]
    /\ snVal = [id \in NotifyIds |-> FALSE]
    /\ snLast = [called |-> FALSE, id |-> 0, ret |-> FALSE, seq |-> 0]

ExtIdle == MainIdle /\ PresIdle /\ PubIdle /\ HuIdle /\ WsIdle /\ SnIdle

Init == LifeInit /\ UpIdle /\ PipeIdle /\ OpIdle /\ RateIdle /\ ExtIdle

\* send Hello; a failed write ends the task without any frame
SendHello(s) ==
    /\ pc[s] = "Accepted"
    /\ \/ /\ Send(s, Frame("Hello"))
          /\ pc' = [pc EXCEPT ![s] = "AwaitIdentify"]
       \/ /\ pc' = [pc EXCEPT ![s] = "Closed"]
          /\ UNCHANGED out
    /\ UNCHANGED <<store, presence, published, ident, innerRes, rsSnap,
                   inserted, rsRes, nRun>>
    /\ UNCHANGED <<queue, upVars, pipeVars, opVars, rateVars, extVars>>

\* no frame within 5 seconds, or the stream ended or failed
IdentifyTimeout(s) ==
    /\ pc[s] = "AwaitIdentify"
    /\ Send(s, TimeoutClose)
    /\ pc' = [pc EXCEPT ![s] = AfterHandshakeFailure]
    /\ UNCHANGED <<store, presence, published, ident, innerRes, rsSnap,
                   inserted, rsRes, nRun>>
    /\ UNCHANGED <<queue, upVars, pipeVars, opVars, rateVars, extVars>>

\* the first frame does not decode as an InboundMessage
IdentifyUndecodable(s) ==
    /\ pc[s] = "AwaitIdentify"
    /\ Send(s, CloseFrame(CloseError, "deser error"))
    /\ pc' = [pc EXCEPT ![s] = AfterHandshakeFailure]
    /\ UNCHANGED <<store, presence, published, ident, innerRes, rsSnap,
                   inserted, rsRes, nRun>>
    /\ UNCHANGED <<queue, upVars, pipeVars, opVars, rateVars, extVars>>

\* the first frame decodes to a message other than Identify
IdentifyOther(s) ==
    /\ pc[s] = "AwaitIdentify"
    /\ Send(s, CloseFrame(ClosePolicy, "expected identify event"))
    /\ pc' = [pc EXCEPT ![s] = AfterHandshakeFailure]
    /\ UNCHANGED <<store, presence, published, ident, innerRes, rsSnap,
                   inserted, rsRes, nRun>>
    /\ UNCHANGED <<queue, upVars, pipeVars, opVars, rateVars, extVars>>

RecvIdentify(s) ==
    /\ pc[s] = "AwaitIdentify"
    /\ \E st \in Statuses, d \in IdentifyDevices :
          ident' = [ident EXCEPT ![s] = [status |-> st, device |-> d]]
    /\ pc' = [pc EXCEPT ![s] = "Resolve"]
    /\ UNCHANGED <<store, presence, published, out, innerRes, rsSnap,
                   inserted, rsRes, nRun>>
    /\ UNCHANGED <<queue, upVars, pipeVars, opVars, rateVars, extVars>>

\* UserSession::new: Ok(Some), Ok(None) or Err
ResolveToken(s) ==
    /\ pc[s] = "Resolve"
    /\ \/ /\ pc' = [pc EXCEPT ![s] = "Insert"]
          /\ UNCHANGED <<out, ident>>
       \/ /\ Send(s, CloseFrame(CloseError, "invalid token"))
          /\ pc' = [pc EXCEPT ![s] = AfterHandshakeFailure]
          /\ ident' = [ident EXCEPT ![s] = NoIdent]
       \/ /\ Send(s, CloseFrame(CloseError, "db error"))
          /\ pc' = [pc EXCEPT ![s] = AfterHandshakeFailure]
          /\ ident' = [ident EXCEPT ![s] = NoIdent]
    /\ UNCHANGED <<store, presence, published, innerRes, rsSnap,
                   inserted, rsRes, nRun>>
    /\ UNCHANGED <<queue, upVars, pipeVars, opVars, rateVars, extVars>>

\* insert_session; on a store error a Close frame is sent and inner fails
InsertSession(s) ==
    /\ pc[s] = "Insert"
    /\ \/ /\ store' = [store EXCEPT ![UserOf(s)] =
                  RPush(@, [sid |-> s, device |-> ident[s].device, since |-> s])]
          /\ inserted' = [inserted EXCEPT ![s] = TRUE]
          /\ pc' = [pc EXCEPT ![s] = "UpdatePresence"]
          /\ ident' = [ident EXCEPT ![s].device = NoIdent.device]
          /\ UNCHANGED <<out, innerRes>>
       \/ /\ Send(s, CloseFrame(CloseError, "redis error"))
          /\ EndInner(s, "err")
          /\ UNCHANGED <<store, inserted>>
    /\ UNCHANGED <<presence, published, rsSnap, rsRes, nRun>>
    /\ UNCHANGED <<queue, upVars, pipeVars, opVars, rateVars, extVars>>

SetPresence(s) ==
    /\ pc[s] = "UpdatePresence"
    /\ \/ /\ UpdatePresence(UserOf(s), ident[s].status)
          /\ pc' = [pc EXCEPT ![s] = "Publish"]
          /\ UNCHANGED <<innerRes, ident>>
       \/ /\ EndInner(s, "err")
          /\ UNCHANGED presence
    /\ UNCHANGED <<store, published, out, rsSnap, inserted, rsRes, nRun>>
    /\ UNCHANGED <<queue, upVars, pipeVars, opVars, rateVars, extVars>>

\* get_devices, get_first_session, publish_presence_change
PublishPresence(s) ==
    /\ pc[s] = "Publish"
    /\ LET u == UserOf(s)
           first == GetFirstSince(store[u])
       IN \/ /\ GetSessionsOk(store[u])
             /\ published' = [published EXCEPT ![u] =
                   PresenceEvents(u, ident[s].status, GetDevices(store[u]),
                                  IF first = 0 THEN s ELSE first)]
             /\ pc' = [pc EXCEPT ![s] = "Ready"]
             /\ ident' = [ident EXCEPT ![s] = NoIdent]
             /\ UNCHANGED innerRes
          \/ /\ EndInner(s, "err")
             /\ UNCHANGED published
    /\ UNCHANGED <<store, presence, out, rsSnap, inserted, rsRes, nRun>>
    /\ UNCHANGED <<queue, upVars, pipeVars, opVars, rateVars, extVars>>

\* fetch the observers' presences, build Ready and write it to the socket
SendReady(s) ==
    /\ pc[s] = "Ready"
    /\ \/ /\ \A o \in Observers(UserOf(s)) : GetSessionsOk(store[o])
          /\ Send(s, Frame("Ready"))
          /\ pc' = [pc EXCEPT ![s] = "Setup"]
          /\ UNCHANGED <<innerRes, ident>>
       \/ /\ EndInner(s, "err")
          /\ UNCHANGED out
    /\ UNCHANGED <<store, presence, published, rsSnap, inserted, rsRes, nRun>>
    /\ UNCHANGED <<queue, upVars, pipeVars, opVars, rateVars, extVars>>

\* queue_declare, subscribe to guilds and DMs, queue_bind, basic_consume_rx,
\* seed hidden_channels
Setup(s) ==
    /\ pc[s] = "Setup"
    /\ \/ /\ pc' = [pc EXCEPT ![s] = "Running"]
          /\ queue' = [queue EXCEPT ![s] = "consuming"]
          /\ UNCHANGED <<innerRes, ident>>
       \/ /\ EndInner(s, "err")
          /\ \E q \in {"none", "partial"} : queue' = [queue EXCEPT ![s] = q]
    /\ UNCHANGED <<store, presence, published, out, rsSnap, inserted,
                   rsRes, nRun>>
    /\ UNCHANGED <<upVars, pipeVars, opVars, rateVars, extVars>>

\* upstream_listener forwards one broker event to the socket
UpstreamForward(s) ==
    /\ UpstreamActive(s)
    /\ nRun[s] < MaxRun
    /\ nRun' = [nRun EXCEPT ![s] = @ + 1]
    /\ Send(s, Frame("Event"))
    /\ UNCHANGED <<store, presence, published, pc, ident, innerRes, rsSnap,
                   inserted, rsRes>>
    /\ UNCHANGED <<queue, upVars, pipeVars, opVars, rateVars, extVars>>

\* upstream_listener ends: consumer closed, a side effect or the write failed
UpstreamEnd(s) ==
    /\ pc[s] = "Running"
    /\ EndInner(s, "ok")
    /\ UNCHANGED <<store, presence, published, out, rsSnap, inserted,
                   rsRes, nRun>>
    /\ wsLast' = [wsLast EXCEPT ![s] = NoFrame]
    /\ UNCHANGED <<queue, upVars, pipeVars, opVars, rateVars>>
    /\ UNCHANGED <<mainVars, presVars, pubVars, huVars, snVars>>

\* ws_listener: Ping is answered with Pong
WsPing(s) ==
    /\ pc[s] = "Running"
    /\ nRun[s] < MaxRun
    /\ nRun' = [nRun EXCEPT ![s] = @ + 1]
    /\ Send(s, Frame("Pong"))
    /\ wsLast' = [wsLast EXCEPT ![s] = WsHandled("Ping", "ok", "none", 0)]
    /\ UNCHANGED <<store, presence, published, pc, ident, innerRes, rsSnap,
                   inserted, rsRes>>
    /\ UNCHANGED <<queue, upVars, pipeVars, opVars, rateVars>>
    /\ UNCHANGED <<mainVars, presVars, pubVars, huVars, snVars>>

\* ws_listener: a frame session.decode rejects, with Error::Close for a text
\* or binary frame that does not parse and Error::Ignore for any other frame,
\* fails the if let and the loop reads the next frame
WsUndecodable(s) ==
    /\ pc[s] = "Running"
    /\ nRun[s] < MaxRun
    /\ nRun' = [nRun EXCEPT ![s] = @ + 1]
    /\ \E err \in {"DecodeClose", "DecodeIgnore"} :
          wsLast' = [wsLast EXCEPT ![s] = WsHandled(err, "skipped", "none", 0)]
    /\ UNCHANGED <<store, presence, published, pc, out, ident, innerRes, rsSnap,
                   inserted, rsRes>>
    /\ UNCHANGED <<queue, upVars, pipeVars, opVars, rateVars>>
    /\ UNCHANGED <<mainVars, presVars, pubVars, huVars, snVars>>

\* ws_listener: UpdatePresence{status: Some(status)}
WsUpdatePresence(s) ==
    /\ pc[s] = "Running"
    /\ nRun[s] < MaxRun
    /\ nRun' = [nRun EXCEPT ![s] = @ + 1]
    /\ LET u == UserOf(s)
           since == GetFirstSince(store[u])
           Leave(res, st, first) ==
               wsLast' = [wsLast EXCEPT ![s] =
                             WsHandled("UpdatePresence", res, st, first)]
       IN \E st \in Statuses :
          \/ /\ UpdatePresence(u, st)
             /\ \/ /\ GetSessionsOk(store[u])
                   /\ \/ /\ published' = [published EXCEPT ![u] =
                               PresenceEvents(u, st, GetDevices(store[u]), since)]
                         /\ Leave("ok", st, since)
                      \/ /\ UNCHANGED published
                         /\ Leave("PublishFailed", st, since)
                   /\ UNCHANGED <<pc, innerRes, ident>>
                \/ /\ ~GetSessionsOk(store[u])
                   /\ EndInner(s, "ok")
                   /\ wsLast' = [wsLast EXCEPT ![s] = NoFrame]
                   /\ UNCHANGED published
             /\ UNCHANGED out
          \/ /\ Send(s, CloseFrame(CloseError, "redis error"))
             /\ EndInner(s, "ok")
             /\ wsLast' = [wsLast EXCEPT ![s] = NoFrame]
             /\ UNCHANGED <<presence, published>>
    /\ UNCHANGED <<store, rsSnap, inserted, rsRes>>
    /\ UNCHANGED <<queue, upVars, pipeVars, opVars, rateVars>>
    /\ UNCHANGED <<mainVars, presVars, pubVars, huVars, snVars>>

\* ws_listener ends: the client closed or the stream failed
WsEnd(s) ==
    /\ pc[s] = "Running"
    /\ EndInner(s, "ok")
    /\ UNCHANGED <<store, presence, published, out, rsSnap, inserted,
                   rsRes, nRun>>
    /\ wsLast' = [wsLast EXCEPT ![s] = NoFrame]
    /\ UNCHANGED <<queue, upVars, pipeVars, opVars, rateVars>>
    /\ UNCHANGED <<mainVars, presVars, pubVars, huVars, snVars>>

\* remove_session, first command: get_sessions
RemoveGet(s) ==
    /\ pc[s] = "Cleanup"
    /\ \/ /\ GetSessionsOk(store[UserOf(s)])
          /\ rsSnap' = [rsSnap EXCEPT ![s] = store[UserOf(s)]]
          /\ rsRes' = [rsRes EXCEPT ![s] = "called"]
          /\ pc' = [pc EXCEPT ![s] = "RsDecide"]
       \/ /\ rsRes' = [rsRes EXCEPT ![s] = "err"]
          /\ pc' = [pc EXCEPT ![s] = "AmqpClose"]
          /\ UNCHANGED rsSnap
    /\ UNCHANGED <<store, presence, published, out, ident, innerRes, inserted, nRun>>
    /\ UNCHANGED <<queue, upVars, pipeVars, opVars, rateVars, extVars>>

\* remove_session, second command: DEL when one record was read, else LSET
RemoveMark(s) ==
    /\ pc[s] = "RsDecide"
    /\ LET u == UserOf(s)
           index == RemoveIndex(rsSnap[s], s)
       IN IF Len(rsSnap[s]) = 1
          THEN /\ store' = [store EXCEPT ![u] = <<>>]
               /\ rsRes' = [rsRes EXCEPT ![s] = "ok"]
               /\ pc' = [pc EXCEPT ![s] = "AmqpClose"]
          ELSE IF LSetOk(store[u], index)
          THEN /\ store' = [store EXCEPT ![u] = LSet(@, index, REMOVED)]
               /\ pc' = [pc EXCEPT ![s] = "RsLrem"]
               /\ UNCHANGED rsRes
          ELSE /\ rsRes' = [rsRes EXCEPT ![s] = "err"]
               /\ pc' = [pc EXCEPT ![s] = "AmqpClose"]
               /\ UNCHANGED store
    /\ rsSnap' = [rsSnap EXCEPT ![s] = <<>>]
    /\ UNCHANGED <<presence, published, out, ident, innerRes, inserted, nRun>>
    /\ UNCHANGED <<queue, upVars, pipeVars, opVars, rateVars, extVars>>

\* remove_session, third command: LREM key 1 "REMOVED"
RemoveLrem(s) ==
    /\ pc[s] = "RsLrem"
    /\ store' = [store EXCEPT ![UserOf(s)] = LRem1(@, REMOVED)]
    /\ rsRes' = [rsRes EXCEPT ![s] = "ok"]
    /\ pc' = [pc EXCEPT ![s] = "AmqpClose"]
    /\ UNCHANGED <<presence, published, out, ident, innerRes, rsSnap, inserted, nRun>>
    /\ UNCHANGED <<queue, upVars, pipeVars, opVars, rateVars, extVars>>

AmqpClose(s) ==
    /\ pc[s] = "AmqpClose"
    /\ pc' = [pc EXCEPT ![s] = "FinalClose"]
    /\ UNCHANGED <<store, presence, published, out, ident, innerRes, rsSnap,
                   inserted, rsRes, nRun>>
    /\ UNCHANGED <<queue, upVars, pipeVars, opVars, rateVars, extVars>>

\* the final Close frame: Abnormal when inner failed, Normal otherwise
FinalClose(s) ==
    /\ pc[s] = "FinalClose"
    /\ Send(s, IF innerRes[s] = "err"
               THEN CloseFrame(CloseAbnormal, "error")
               ELSE CloseFrame(CloseNormal, "client disconnected"))
    /\ pc' = [pc EXCEPT ![s] = "Closed"]
    /\ UNCHANGED <<store, presence, published, ident, innerRes, rsSnap,
                   inserted, rsRes, nRun>>
    /\ UNCHANGED <<queue, upVars, pipeVars, opVars, rateVars, extVars>>

Next ==
    \E s \in Sessions :
        \/ SendHello(s)
        \/ IdentifyTimeout(s)
        \/ IdentifyUndecodable(s)
        \/ IdentifyOther(s)
        \/ RecvIdentify(s)
        \/ ResolveToken(s)
        \/ InsertSession(s)
        \/ SetPresence(s)
        \/ PublishPresence(s)
        \/ SendReady(s)
        \/ Setup(s)
        \/ UpstreamForward(s)
        \/ UpstreamEnd(s)
        \/ WsPing(s)
        \/ WsUpdatePresence(s)
        \/ WsUndecodable(s)
        \/ WsEnd(s)
        \/ RemoveGet(s)
        \/ RemoveMark(s)
        \/ RemoveLrem(s)
        \/ AmqpClose(s)
        \/ FinalClose(s)

Spec == Init /\ [][Next]_vars

\* the runtime polls every ready task and the store and broker calls of the
\* cleanup return
FairSpec ==
    /\ Spec
    /\ \A s \in Sessions :
          /\ WF_vars(RemoveGet(s))
          /\ WF_vars(RemoveMark(s))
          /\ WF_vars(RemoveLrem(s))
          /\ WF_vars(AmqpClose(s))
          /\ WF_vars(FinalClose(s))

\* --------------------------------- update_presence, get_presence (presence.rs)
\* update_presence(user_id, status) returns Ok
PresUpdate(u, status) ==
    /\ UpdatePresence(u, status)
    /\ lastStatus' = [lastStatus EXCEPT ![u] = status]
    /\ UNCHANGED <<store, published, pc, out, ident, innerRes, rsSnap,
                   inserted, rsRes, nRun, queue>>
    /\ UNCHANGED <<gotPresence, mainVars, pubVars, huVars, wsVars, snVars>>
    /\ UNCHANGED <<upVars, pipeVars, opVars, rateVars>>

\* get_presence(user_id) returns Ok(status)
PresGet(u) ==
    /\ gotPresence' = [called |-> TRUE, user |-> u,
                       status |-> GetPresence(presence[u]),
                       last |-> lastStatus[u]]
    /\ UNCHANGED <<lifeVars, lastStatus, mainVars, pubVars, huVars, wsVars, snVars>>
    /\ UNCHANGED <<upVars, pipeVars, opVars, rateVars>>

PresNext ==
    \E u \in Users :
        \/ \E status \in PresenceStatuses : PresUpdate(u, status)
        \/ PresGet(u)

PresSpec == Init /\ [][PresNext]_vars

\* ------------------------------------------ publish_presence_change (presence.rs)
PubUsers == 1..NumPubUsers

\* the rows of fetch_observable_user_ids_for_user(user_id): distinct users
\* other than the user, in any order
ObserverLists(u) ==
    {q \in UNION {[1..n -> PubUsers \ {u}] : n \in 0..(NumPubUsers - 1)} :
        \A i, j \in DOMAIN q : i # j => q[i] # q[j]}

\* the user itself is not told
PubRecipientsObserversOnly(u, obs) == obs

\* user_ids.push(user_id)
PubRecipients(u, obs) == Append(obs, u)

\* publish(channel, "events", false, user_id.to_string(), event)
UserEvent(r, u, status) ==
    [exchange |-> "events", key |-> ToString(r), event |-> "PresenceUpdate",
     user |-> u, status |-> status]

\* publish_presence_change(channel, u, presence) is called
PubInit ==
    /\ LifeInit
    /\ UpIdle
    /\ PipeIdle
    /\ OpIdle
    /\ RateIdle
    /\ MainIdle
    /\ PresIdle
    /\ HuIdle
    /\ WsIdle
    /\ SnIdle
    /\ pubTodo = <<>>
    /\ pubLog = <<>>
    /\ \E u \in PubUsers, status \in PresenceStatuses :
          \E obs \in ObserverLists(u) :
             pubCall = [st |-> "fetch", user |-> u, obs |-> obs, status |-> status]

\* the observers are fetched, or the query fails and the call returns Err
PubFetch ==
    /\ pubCall.st = "fetch"
    /\ \/ /\ pubTodo' = PubRecipients(pubCall.user, pubCall.obs)
          /\ pubCall' = [pubCall EXCEPT !.st = "run"]
       \/ /\ pubCall' = [pubCall EXCEPT !.st = "err"]
          /\ UNCHANGED pubTodo
    /\ UNCHANGED <<pubLog, lifeVars, mainVars, presVars, huVars, wsVars, snVars>>
    /\ UNCHANGED <<upVars, pipeVars, opVars, rateVars>>

\* one turn of the loop: publish_user_event to the next id, whose failure
\* returns Err; after the last id the call returns Ok
PubStep ==
    /\ pubCall.st = "run"
    /\ \/ /\ pubTodo # <<>>
          /\ \/ /\ pubLog' = Append(pubLog,
                         UserEvent(Head(pubTodo), pubCall.user, pubCall.status))
                /\ pubTodo' = Tail(pubTodo)
                /\ UNCHANGED pubCall
             \/ /\ pubCall' = [pubCall EXCEPT !.st = "err"]
                /\ UNCHANGED <<pubTodo, pubLog>>
       \/ /\ pubTodo = <<>>
          /\ pubCall' = [pubCall EXCEPT !.st = "ok"]
          /\ UNCHANGED <<pubTodo, pubLog>>
    /\ UNCHANGED <<lifeVars, mainVars, presVars, huVars, wsVars, snVars>>
    /\ UNCHANGED <<upVars, pipeVars, opVars, rateVars>>

PubNext == PubFetch \/ PubStep

PubSpec == PubInit /\ [][PubNext]_vars

\* ------------------------------------------------- the server task (main.rs)
\* the listener is bound and no connection has arrived yet
MainInit ==
    /\ LifeFresh
    /\ pc = [s \in Sessions |-> "Pending"]
    /\ UpIdle
    /\ PipeIdle
    /\ OpIdle
    /\ RateIdle
    /\ ExtIdle

\* listener.accept() gives a stream and a task is spawned for it; the
\* WebSocket handshake of accept(stream) succeeds or the task ends
Accept(s) ==
    /\ mainPc = "accepting"
    /\ pc[s] = "Pending"
    /\ \E to \in {"Accepted", "Closed"} : pc' = [pc EXCEPT ![s] = to]
    /\ UNCHANGED <<store, presence, published, out, ident, innerRes, rsSnap,
                   inserted, rsRes, nRun, queue>>
    /\ UNCHANGED <<mainPc, presVars, pubVars, huVars, wsVars, snVars>>
    /\ UNCHANGED <<upVars, pipeVars, opVars, rateVars>>

\* ctrl-c: the select! arm of rx returns from main, the runtime shuts down and
\* every task that has not finished is dropped where it awaits
CtrlC ==
    /\ mainPc = "accepting"
    /\ mainPc' = "exited"
    /\ pc' = [s \in Sessions |->
                IF pc[s] \in {"Pending", "Closed"} THEN pc[s] ELSE "Dropped"]
    /\ UNCHANGED <<store, presence, published, out, ident, innerRes, rsSnap,
                   inserted, rsRes, nRun, queue>>
    /\ UNCHANGED <<presVars, pubVars, huVars, wsVars, snVars>>
    /\ UNCHANGED <<upVars, pipeVars, opVars, rateVars>>

\* the session tasks are polled only while the runtime lives
MainNext ==
    \/ mainPc = "accepting" /\ Next
    \/ \E s \in Sessions : Accept(s)
    \/ CtrlC

MainSpec == MainInit /\ [][MainNext]_vars

\* ------------------------------------------- upstream_listener (websocket.rs)
\* calculate_permissions_sorted(user, roles, overwrites) contains VIEW_CHANNEL:
\* a channel overwrite decides, otherwise the fold of the sorted roles
View(rolesAllow, ow) ==
    IF ow = "allow" THEN TRUE ELSE IF ow = "deny" THEN FALSE ELSE rolesAllow

\* the seed computed without the owner check
SeedHiddenOwnedToo(roles, ows) ==
    {c \in Channels : ~View(roles[GuildOf(c)], ows[c])}

\* the hidden set seeded from the guilds fetched at setup
SeedHidden(roles, ows) ==
    {c \in Channels : GuildOf(c) \notin OwnedGuilds /\ ~View(roles[GuildOf(c)], ows[c])}

\* the egress filter forgets MessageUpdate
HiddenFilterCreateOnly(ev, hid) == ev.t = "MessageCreate" /\ ev.id \in hid

\* the egress filter: MessageCreate and MessageUpdate of a hidden channel
HiddenFilter(ev, hid) ==
    ev.t \in {"MessageCreate", "MessageUpdate"} /\ ev.id \in hid

\* session 1 identified as Online on Desktop and reached Running
LifeRunning ==
    /\ store = [u \in Users |-> IF u = UserOf(1)
                   THEN <<[sid |-> 1, device |-> "Desktop", since |-> 1]>> ELSE <<>>]
    /\ presence = [u \in Users |-> IF u = UserOf(1) THEN EncodeStatus("Online")
                                     ELSE NoKey]
    /\ published = [u \in Users |-> IF u = UserOf(1)
                   THEN PresenceEvents(u, "Online", {"Desktop"}, 1) ELSE {}]
    /\ pc = [s \in Sessions |-> IF s = 1 THEN "Running" ELSE "Accepted"]
    /\ out = [s \in Sessions |-> IF s = 1 THEN <<Frame("Hello"), Frame("Ready")>>
                                  ELSE <<>>]
    /\ ident = [s \in Sessions |-> NoIdent]
    /\ innerRes = [s \in Sessions |-> "none"]
    /\ rsSnap = [s \in Sessions |-> <<>>]
    /\ inserted = [s \in Sessions |-> s = 1]
    /\ rsRes = [s \in Sessions |-> "none"]
    /\ nRun = [s \in Sessions |-> 0]
    /\ queue = [s \in Sessions |-> IF s = 1 THEN "consuming" ELSE "none"]

\* the listener starts with the seeded set and the bindings of the setup
UpInit ==
    /\ LifeRunning
    /\ ExtIdle
    /\ PipeIdle
    /\ OpIdle
    /\ RateIdle
    /\ \E roles \in [Guilds -> BOOLEAN], ows \in [Channels -> Overwrites] :
          hidden = SeedHidden(roles, ows)
    /\ \E member \in SUBSET (Guilds \cup DmIds) : binds = member
    /\ upPc = "run"
    /\ upLast = NoDelivery

\* what the handling of a delivery leaves behind: the event, whether it was
\* written, the channels whose permissions were recomputed and those of
\* them that contain VIEW_CHANNEL
Handled(ev, fwd, calc, view) ==
    [ev |-> ev, fwd |-> fwd, calc |-> calc, view |-> view]

\* the event is written to the socket, or the write fails and the loop ends
Forward(ev, calc, view) ==
    \/ /\ upLast' = Handled(ev, TRUE, calc, view)
       /\ UNCHANGED upPc
    \/ /\ upLast' = Handled(ev, FALSE, calc, view)
       /\ upPc' = "end"

\* the continue is missing: the event is written all the same
DropForwards(ev, calc, view) ==
    /\ upLast' = Handled(ev, TRUE, calc, view)
    /\ UNCHANGED upPc

\* continue: the event is not written and the loop goes on
Drop(ev, calc, view) ==
    /\ upLast' = Handled(ev, FALSE, calc, view)
    /\ UNCHANGED upPc

\* break
Break(ev) ==
    /\ upLast' = Handled(ev, FALSE, {}, {})
    /\ upPc' = "end"

Receives(ev, types) == upPc = "run" /\ ev \in UpEvents /\ ev.t \in types

\* the content does not decode: the delivery is skipped
UpUndecodable(ev) ==
    /\ Receives(ev, {"Undecodable"})
    /\ Drop(ev, {}, {})
    /\ UNCHANGED <<hidden, binds, lifeVars, extVars, pipeVars, opVars, rateVars>>

\* ChannelCreate{Dm} and GuildCreate: subscribe, then forward
UpSubscribe(ev) ==
    /\ Receives(ev, {"ChannelCreateDm", "GuildCreate"})
    /\ \/ /\ binds' = binds \cup {ev.id}
          /\ Forward(ev, {}, {})
       \/ /\ Break(ev)
          /\ UNCHANGED binds
    /\ UNCHANGED <<hidden, lifeVars, extVars, pipeVars, opVars, rateVars>>

\* ChannelDelete and GuildRemove: unsubscribe, then forward
UpUnsubscribe(ev) ==
    /\ Receives(ev, {"ChannelDelete", "GuildRemove"})
    /\ \/ /\ binds' = binds \ {ev.id}
          /\ Forward(ev, {}, {})
       \/ /\ Break(ev)
          /\ UNCHANGED binds
    /\ UNCHANGED <<hidden, lifeVars, extVars, pipeVars, opVars, rateVars>>

\* ChannelCreate{Guild}: fetch the guild with roles, recompute the channel
UpChannelCreate(ev) ==
    /\ Receives(ev, {"ChannelCreate"})
    /\ \/ \E rolesAllow \in BOOLEAN :
             IF GuildOf(ev.id) \in OwnedGuilds
             THEN UNCHANGED hidden /\ Forward(ev, {}, {})
             ELSE IF ~View(rolesAllow, ev.ow)
             THEN hidden' = hidden \cup {ev.id} /\ Drop(ev, {ev.id}, {})
             ELSE UNCHANGED hidden /\ Forward(ev, {ev.id}, {ev.id})
       \/ /\ Break(ev)
          /\ UNCHANGED hidden
    /\ UNCHANGED <<binds, lifeVars, extVars, pipeVars, opVars, rateVars>>

\* the update keeps a channel hidden once it was hidden
HiddenAfterUpdateInsertOnly(hid, id, view) ==
    IF view THEN hid ELSE hid \cup {id}

\* ChannelUpdate: insert(after.id) when VIEW_CHANNEL is missing, else
\* remove(&after.id)
HiddenAfterUpdate(hid, id, view) ==
    IF view THEN hid \ {id} ELSE hid \cup {id}

\* ChannelUpdate{Guild}: fetch the guild with roles, recompute the channel
UpChannelUpdate(ev) ==
    /\ Receives(ev, {"ChannelUpdate"})
    /\ \/ \E rolesAllow \in BOOLEAN :
             IF GuildOf(ev.id) \in OwnedGuilds
             THEN UNCHANGED hidden /\ Forward(ev, {}, {})
             ELSE /\ hidden' = HiddenAfterUpdate(hidden, ev.id, View(rolesAllow, ev.ow))
                  /\ IF View(rolesAllow, ev.ow)
                     THEN Forward(ev, {ev.id}, {ev.id})
                     ELSE Drop(ev, {ev.id}, {})
       \/ /\ Break(ev)
          /\ UNCHANGED hidden
    /\ UNCHANGED <<binds, lifeVars, extVars, pipeVars, opVars, rateVars>>

\* MessageCreate and MessageUpdate pass the filter or are skipped
UpMessage(ev) ==
    /\ Receives(ev, {"MessageCreate", "MessageUpdate"})
    /\ IF HiddenFilter(ev, hidden) THEN Drop(ev, {}, {}) ELSE Forward(ev, {}, {})
    /\ UNCHANGED <<hidden, binds, lifeVars, extVars, pipeVars, opVars, rateVars>>

\* RoleCreate and RoleUpdate: fetch the guild with roles and channels and
\* insert every channel that lacks VIEW_CHANNEL
UpRole(ev) ==
    /\ Receives(ev, {"RoleCreate", "RoleUpdate"})
    /\ \/ \E rolesAllow \in BOOLEAN, chans \in SUBSET ChannelsOf(ev.id) :
          \E ows \in [chans -> Overwrites] :
             IF ev.id \in OwnedGuilds
             THEN UNCHANGED hidden /\ Forward(ev, {}, {})
             ELSE IF chans = {}
             THEN UNCHANGED hidden /\ Drop(ev, {}, {})
             ELSE /\ hidden' = hidden \cup {c \in chans : ~View(rolesAllow, ows[c])}
                  /\ Forward(ev, chans, {c \in chans : View(rolesAllow, ows[c])})
       \/ /\ Break(ev)
          /\ UNCHANGED hidden
    /\ UNCHANGED <<binds, lifeVars, extVars, pipeVars, opVars, rateVars>>

\* every other event, MessageDelete among them, is forwarded as it is
UpOther(ev) ==
    /\ Receives(ev, {"MessageDelete", "PresenceUpdate"})
    /\ Forward(ev, {}, {})
    /\ UNCHANGED <<hidden, binds, lifeVars, extVars, pipeVars, opVars, rateVars>>

\* the consumer channel is closed
UpClosed ==
    /\ upPc = "run"
    /\ upPc' = "end"
    /\ UNCHANGED <<hidden, binds, upLast, lifeVars, extVars, pipeVars, opVars, rateVars>>

UpNext ==
    \/ \E ev \in UpEvents :
          \/ UpUndecodable(ev)
          \/ UpSubscribe(ev)
          \/ UpUnsubscribe(ev)
          \/ UpChannelCreate(ev)
          \/ UpChannelUpdate(ev)
          \/ UpMessage(ev)
          \/ UpRole(ev)
          \/ UpOther(ev)
    \/ UpClosed

UpSpec == UpInit /\ [][UpNext]_vars

\* ------------------------------------------------ handle_upstream (upstream.rs)
\* a binding of the session queue
Binding(x, key) == [x |-> x, key |-> key]

\* the user of the session, as the routing key user_id.to_string()
HuUserKey == ToString(UserOf(1))

\* subscribe(channel, guild_id, session_id, user_id): exchange_declare, then
\* queue_bind with the user id as routing key
HuSubscribed(b, id) == b \cup {Binding(ToString(id), HuUserKey)}

HuEvents ==
    {ev \in UpEvents : ev.t \in {"GuildCreate", "GuildRemove", "ChannelCreateDm",
                                 "PresenceUpdate", "Undecodable"}}
    \cup {Event("ChannelDelete", c, "none") : c \in DmIds}

\* the queue is declared, every guild of get_guilds is subscribed with the
\* results of join_all discarded, the queue is bound to events and consumed
HuInit ==
    /\ LifeRunning
    /\ UpIdle
    /\ PipeIdle
    /\ OpIdle
    /\ RateIdle
    /\ MainIdle
    /\ PresIdle
    /\ PubIdle
    /\ WsIdle
    /\ SnIdle
    /\ huPc = "consume"
    /\ huCur = Event("None", 0, "none")
    /\ huQ = <<>>
    /\ huAcks = 0
    /\ huGuilds \in SUBSET Guilds
    /\ \E done \in SUBSET huGuilds :
          huBinds = {Binding(ToString(g), HuUserKey) : g \in done}
                    \cup {Binding("events", HuUserKey)}

HuTake(ev) ==
    /\ huPc = "consume"
    /\ Len(huQ) < NumDeliveries
    /\ ev \in HuEvents

\* the payload does not decode: unwrap_or_nack nacks and panics, the task ends
HuUndecodable(ev) ==
    /\ HuTake(ev)
    /\ ev.t = "Undecodable"
    /\ huPc' = "end"
    /\ huCur' = ev
    /\ UNCHANGED <<huQ, huBinds, huAcks, huGuilds>>
    /\ UNCHANGED <<lifeVars, mainVars, presVars, pubVars, wsVars, snVars>>
    /\ UNCHANGED <<upVars, pipeVars, opVars, rateVars>>

\* the event is encoded and sent on tx at once; GuildCreate goes on to
\* subscribe, every other event to the ack task
HuSend(ev) ==
    /\ HuTake(ev)
    /\ ev.t # "Undecodable"
    /\ huCur' = ev
    /\ \/ /\ huQ' = Append(huQ, ev)
          /\ IF ev.t = "GuildCreate"
             THEN huPc' = "subscribe" /\ UNCHANGED huAcks
             ELSE huPc' = "consume" /\ huAcks' = huAcks + 1
       \/ /\ huPc' = "end"
          /\ UNCHANGED <<huQ, huAcks>>
    /\ UNCHANGED <<huBinds, huGuilds>>
    /\ UNCHANGED <<lifeVars, mainVars, presVars, pubVars, wsVars, snVars>>
    /\ UNCHANGED <<upVars, pipeVars, opVars, rateVars>>

\* GuildCreate: subscribe to the guild's exchange, then spawn the ack
HuSubscribe ==
    /\ huPc = "subscribe"
    /\ \/ /\ huBinds' = HuSubscribed(huBinds, huCur.id)
          /\ huAcks' = huAcks + 1
          /\ huPc' = "consume"
       \/ /\ huPc' = "end"
          /\ UNCHANGED <<huBinds, huAcks>>
    /\ UNCHANGED <<huCur, huQ, huGuilds>>
    /\ UNCHANGED <<lifeVars, mainVars, presVars, pubVars, wsVars, snVars>>
    /\ UNCHANGED <<upVars, pipeVars, opVars, rateVars>>

\* consumer.try_next() gives no delivery any more
HuClosed ==
    /\ huPc = "consume"
    /\ huPc' = "end"
    /\ UNCHANGED <<huCur, huQ, huBinds, huAcks, huGuilds>>
    /\ UNCHANGED <<lifeVars, mainVars, presVars, pubVars, wsVars, snVars>>
    /\ UNCHANGED <<upVars, pipeVars, opVars, rateVars>>

HuNext ==
    \/ \E ev \in HuEvents : HuUndecodable(ev) \/ HuSend(ev)
    \/ HuSubscribe
    \/ HuClosed

HuSpec == HuInit /\ [][HuNext]_vars

\* ------------------------------------- shutdown notifier (shutdown_notifier.rs)
\* shutdown answers whether a sender is registered, whatever send returned
ShutdownResultRegistered(registered, alive) == registered

\* shutdown(&session_id): false without a sender in the map, otherwise
\* !sender.send(true).is_err(), and a watch send fails exactly when no
\* receiver of its channel is alive
ShutdownResult(registered, alive) == registered /\ alive

\* nothing else of the model runs beside the notifier
SnInit ==
    /\ LifeInit
    /\ UpIdle
    /\ PipeIdle
    /\ OpIdle
    /\ RateIdle
    /\ ExtIdle

\* insert(session_id, sender): the sender of a new watch channel, created
\* with the value false, replaces whatever the map held for the id; the
\* receiver created with it is still held or already dropped
SnInsert(id) ==
    /\ snMap' = snMap \cup {id}
    /\ \E kept \in {0, 1} : snRx' = [snRx EXCEPT ![id] = kept]
    /\ snVal' = [snVal EXCEPT ![id] = FALSE]
    /\ UNCHANGED <<snLast, lifeVars, mainVars, presVars, pubVars, huVars, wsVars>>
    /\ UNCHANGED <<upVars, pipeVars, opVars, rateVars>>

\* get_receiver(&session_id): Some(sender.subscribe()) for a registered id
SnGetReceiver(id) ==
    /\ id \in snMap
    /\ snRx[id] < MaxReceivers
    /\ snRx' = [snRx EXCEPT ![id] = @ + 1]
    /\ UNCHANGED <<snMap, snVal, snLast, lifeVars, mainVars, presVars, pubVars,
                   huVars, wsVars>>
    /\ UNCHANGED <<upVars, pipeVars, opVars, rateVars>>

\* a holder drops its receiver
SnDropReceiver(id) ==
    /\ snRx[id] > 0
    /\ snRx' = [snRx EXCEPT ![id] = @ - 1]
    /\ UNCHANGED <<snMap, snVal, snLast, lifeVars, mainVars, presVars, pubVars,
                   huVars, wsVars>>
    /\ UNCHANGED <<upVars, pipeVars, opVars, rateVars>>

\* ChannelCallbacks::close of the session's channel: shutdown(&session_id);
\* a send that succeeds stores true for the receivers of that channel
SnClose(id) ==
    /\ LET ret == ShutdownResult(id \in snMap, snRx[id] > 0)
       IN /\ snVal' = [snVal EXCEPT ![id] = IF ret THEN TRUE ELSE @]
          /\ snLast' = [called |-> TRUE, id |-> id, ret |-> ret,
                        seq |-> 1 - snLast.seq]
    /\ UNCHANGED <<snMap, snRx, lifeVars, mainVars, presVars, pubVars, huVars,
                   wsVars>>
    /\ UNCHANGED <<upVars, pipeVars, opVars, rateVars>>

SnNext ==
    \E id \in NotifyIds :
        \/ SnInsert(id)
        \/ SnGetReceiver(id)
        \/ SnDropReceiver(id)
        \/ SnClose(id)

NotifySpec == SnInit /\ [][SnNext]_vars

\* --------------------------- consumer pipeline (recv.rs), client pipeline
\* (client.rs) and the egress task between the send-queue and the socket
PFrame(t, tag, code) == [t |-> t, tag |-> tag, code |-> code]

\* the events recv.rs tells apart; it never reads the overwrites
PipeEvents ==
    {ev \in UpEvents :
        /\ ev.ow = "none"
        /\ ev.t \in {"ChannelCreateDm", "ChannelDelete", "GuildCreate", "GuildRemove",
                      "MessageCreate", "MessageUpdate", "MessageDelete",
                      "PresenceUpdate", "Undecodable"}}

\* the send-queue hands frames out newest first
EnqueueFront(q, f) == <<f>> \o q

\* tx.send on the unbounded flume channel
Enqueue(q, f) == Append(q, f)

\* the receiver lives in the egress task; once it is gone tx.send fails
ReceiverAlive == sockOpen

PongCount == Cardinality({i \in DOMAIN enq : enq[i].t = "Pong"})

\* session 1 is Running, member of every guild, with its seeded hidden set;
\* nothing was delivered or enqueued yet
PipeInit ==
    /\ LifeRunning
    /\ ExtIdle
    /\ OpIdle
    /\ RateIdle
    /\ nPing = 0
    /\ \E roles \in [Guilds -> BOOLEAN], ows \in [Channels -> Overwrites] :
          hidden = SeedHidden(roles, ows)
    /\ binds = Guilds
    /\ upPc = "end"
    /\ upLast = NoDelivery
    /\ dl = <<>>
    /\ txq = <<>>
    /\ enq = <<>>
    /\ written = <<>>
    /\ sockOpen = TRUE
    /\ cliPc = "run"

\* tx.send(frame): the frame joins the send-queue
SendQueue(f) ==
    /\ txq' = Enqueue(txq, f)
    /\ enq' = Append(enq, f)

SetDl(i, st, acks, nacks) ==
    dl' = [dl EXCEPT ![i] = [ev |-> dl[i].ev, st |-> st,
                             acks |-> dl[i].acks + acks, nacks |-> dl[i].nacks + nacks]]

\* unwrap_or_nack on an Err: nack, then panic
NackAndPanic(i) == SetDl(i, "panicked", 0, 1)

\* encode and tx.send, nack and panic when the receiver is gone
EncodeAndSend(i) ==
    IF ReceiverAlive
    THEN SendQueue(PFrame("Event", i, 0)) /\ SetDl(i, "ack", 0, 0)
    ELSE NackAndPanic(i) /\ UNCHANGED <<txq, enq>>

\* process: the consumer yields a delivery and a handle task is spawned for it
Deliver(ev) ==
    /\ ev \in PipeEvents
    /\ Len(dl) < NumDeliveries
    /\ dl' = Append(dl, [ev |-> ev, st |-> "spawned", acks |-> 0, nacks |-> 0])
    /\ UNCHANGED <<txq, enq, written, sockOpen, cliPc, nPing, lifeVars, extVars, upVars, opVars, rateVars>>

Spawned(i, types) == i \in DOMAIN dl /\ dl[i].st = "spawned" /\ dl[i].ev.t \in types

\* handle: the payload does not decode
HUndecodable(i) ==
    /\ Spawned(i, {"Undecodable"})
    /\ NackAndPanic(i)
    /\ UNCHANGED <<txq, enq, written, sockOpen, cliPc, nPing, lifeVars, extVars, upVars, opVars, rateVars>>

\* handle: a topology event awaits its subscribe or unsubscribe
HBeginEffect(i) ==
    /\ Spawned(i, {"ChannelCreateDm", "GuildCreate", "ChannelDelete", "GuildRemove"})
    /\ SetDl(i, "effect", 0, 0)
    /\ UNCHANGED <<txq, enq, written, sockOpen, cliPc, nPing, lifeVars, extVars, upVars, opVars, rateVars>>

\* handle: the broker answered the bind or unbind
HEffectDone(i) ==
    /\ i \in DOMAIN dl
    /\ dl[i].st = "effect"
    /\ \/ /\ binds' = IF dl[i].ev.t \in {"ChannelCreateDm", "GuildCreate"}
                       THEN binds \cup {dl[i].ev.id} ELSE binds \ {dl[i].ev.id}
          /\ EncodeAndSend(i)
       \/ /\ NackAndPanic(i)
          /\ UNCHANGED <<binds, txq, enq>>
    /\ UNCHANGED <<written, sockOpen, cliPc, nPing, lifeVars, extVars, hidden, upPc, upLast, opVars, rateVars>>

\* handle: MessageCreate or MessageUpdate of a hidden channel, HandleState::Break
HFiltered(i) ==
    /\ Spawned(i, {"MessageCreate", "MessageUpdate"})
    /\ HiddenFilter(dl[i].ev, hidden)
    /\ SetDl(i, "returned", 0, 0)
    /\ UNCHANGED <<txq, enq, written, sockOpen, cliPc, nPing, lifeVars, extVars, upVars, opVars, rateVars>>

\* handle: every other event goes on to the send-queue
HForward(i) ==
    /\ Spawned(i, {"MessageCreate", "MessageUpdate", "MessageDelete", "PresenceUpdate"})
    /\ ~HiddenFilter(dl[i].ev, hidden)
    /\ EncodeAndSend(i)
    /\ UNCHANGED <<written, sockOpen, cliPc, nPing, lifeVars, extVars, upVars, opVars, rateVars>>

\* handle: acker.ack
HAck(i) ==
    /\ i \in DOMAIN dl
    /\ dl[i].st = "ack"
    /\ SetDl(i, "done", 1, 0)
    /\ UNCHANGED <<txq, enq, written, sockOpen, cliPc, nPing, lifeVars, extVars, upVars, opVars, rateVars>>

\* client_rx: Ping is answered with Pong through the send-queue
CliPing ==
    /\ cliPc = "run"
    /\ nPing < MaxPings
    /\ nPing' = nPing + 1
    /\ IF ReceiverAlive
       THEN SendQueue(PFrame("Pong", PongCount + 1, 0)) /\ UNCHANGED cliPc
       ELSE cliPc' = "end" /\ UNCHANGED <<txq, enq>>
    /\ UNCHANGED <<dl, written, sockOpen, lifeVars, extVars, upVars, opVars, rateVars>>

\* client_rx: the limiter refuses the frame
CliRateLimited ==
    /\ cliPc = "run"
    /\ cliPc' = "end"
    /\ IF ReceiverAlive
       THEN SendQueue(PFrame("Close", 0, ClosePolicy))
       ELSE UNCHANGED <<txq, enq>>
    /\ UNCHANGED <<dl, written, sockOpen, nPing, lifeVars, extVars, upVars, opVars, rateVars>>

\* client_rx: the frame does not decode, handle_error closes with 1003
CliUndecodable ==
    /\ cliPc = "run"
    /\ cliPc' = "end"
    /\ IF ReceiverAlive
       THEN SendQueue(PFrame("Close", 0, CloseUnsupported))
       ELSE UNCHANGED <<txq, enq>>
    /\ UNCHANGED <<dl, written, sockOpen, nPing, lifeVars, extVars, upVars, opVars, rateVars>>

\* client_rx: a Close frame, a read error or 30 s of silence
CliEnd ==
    /\ cliPc = "run"
    /\ cliPc' = "end"
    /\ UNCHANGED <<dl, txq, enq, written, sockOpen, nPing, lifeVars, extVars, upVars, opVars, rateVars>>

\* egress task: dequeue the oldest frame and write it to the socket
EgressWrite ==
    /\ sockOpen
    /\ txq # <<>>
    /\ written' = Append(written, Head(txq))
    /\ txq' = Tail(txq)
    /\ UNCHANGED <<dl, enq, sockOpen, cliPc, nPing, lifeVars, extVars, upVars, opVars, rateVars>>

\* egress task: the write fails, the task ends and drops the receiver
EgressFail ==
    /\ sockOpen
    /\ txq # <<>>
    /\ txq' = Tail(txq)
    /\ sockOpen' = FALSE
    /\ UNCHANGED <<dl, enq, written, cliPc, nPing, lifeVars, extVars, upVars, opVars, rateVars>>

PipeNext ==
    \/ \E ev \in PipeEvents : Deliver(ev)
    \/ \E i \in 1..NumDeliveries :
          \/ HUndecodable(i)
          \/ HBeginEffect(i)
          \/ HEffectDone(i)
          \/ HFiltered(i)
          \/ HForward(i)
          \/ HAck(i)
    \/ CliPing
    \/ CliRateLimited
    \/ CliUndecodable
    \/ CliEnd
    \/ EgressWrite
    \/ EgressFail

PipeSpec == PipeInit /\ [][PipeNext]_vars

\* -------------------------------- client_rx with its rate limiter (client.rs)
\* session 1 is Running, the limiter was just created with its full burst
RateInit ==
    /\ LifeRunning
    /\ ExtIdle
    /\ UpIdle
    /\ OpIdle
    /\ dl = <<>>
    /\ txq = <<>>
    /\ enq = <<>>
    /\ written = <<>>
    /\ sockOpen = TRUE
    /\ cliPc = "run"
    /\ nPing = 0
    /\ rlTokens = RateQuota
    /\ rlFrames = 0
    /\ rlTicks = 0

\* a frame is read and ratelimiter.check() takes one cell
Admitted ==
    /\ cliPc = "run"
    /\ rlFrames < MaxFrames
    /\ rlTokens > 0
    /\ rlTokens' = rlTokens - 1
    /\ rlFrames' = rlFrames + 1
    /\ UNCHANGED rlTicks

\* an admitted Ping is dispatched and answered with nothing
RateAdmitPingSilent ==
    /\ Admitted
    /\ nPing < MaxPings
    /\ nPing' = nPing + 1
    /\ UNCHANGED <<dl, txq, enq, written, sockOpen, cliPc, lifeVars, extVars, upVars, opVars>>

\* an admitted Ping is answered with Pong
RateAdmitPing ==
    /\ Admitted
    /\ nPing < MaxPings
    /\ nPing' = nPing + 1
    /\ IF ReceiverAlive
       THEN SendQueue(PFrame("Pong", nPing + 1, 0)) /\ UNCHANGED cliPc
       ELSE cliPc' = "end" /\ UNCHANGED <<txq, enq>>
    /\ UNCHANGED <<dl, written, sockOpen, lifeVars, extVars, upVars, opVars>>

\* an admitted frame that asks for nothing: UpdatePresence without a status,
\* or a frame handle_error ignores
RateAdmitOther ==
    /\ Admitted
    /\ UNCHANGED <<pipeVars, lifeVars, extVars, upVars, opVars>>

\* ratelimiter.check() is Err: no cell is left
RateReject ==
    /\ cliPc = "run"
    /\ rlFrames < MaxFrames
    /\ rlTokens = 0
    /\ rlFrames' = rlFrames + 1
    /\ cliPc' = "end"
    /\ IF ReceiverAlive
       THEN SendQueue(PFrame("Close", 0, ClosePolicy))
       ELSE UNCHANGED <<txq, enq>>
    /\ UNCHANGED <<dl, written, sockOpen, nPing, rlTokens, rlTicks,
                   lifeVars, extVars, upVars, opVars>>

\* one replenish interval passes and gives a cell back, up to the burst
RateTick ==
    /\ rlTicks < MaxTicks
    /\ rlTicks' = rlTicks + 1
    /\ rlTokens' = IF rlTokens < RateQuota THEN rlTokens + 1 ELSE rlTokens
    /\ UNCHANGED <<rlFrames, pipeVars, lifeVars, extVars, upVars, opVars>>

RateNext ==
    \/ RateAdmitPing
    \/ RateAdmitOther
    \/ RateReject
    \/ RateTick

RateSpec == RateInit /\ [][RateNext]_vars

\* ------------------------ presence.rs calls on one session-{user_id} list
\* caller c inserts and removes the record whose session_id is c
Callers == 1..NumCallers

Record(c, d) == [sid |-> c, device |-> d, since |-> c]

\* lists of records of the sessions ids, with pairwise distinct session ids
SessionLists(ids) ==
    {l \in UNION {[1..n -> {Record(c, d) : c \in ids, d \in Devices}] :
                    n \in 0..Cardinality(ids)} :
        \A i, j \in DOMAIN l : i # j => l[i].sid # l[j].sid}

\* the list holds the records of earlier insert_session calls
OpInit ==
    /\ LifeInit
    /\ ExtIdle
    /\ UpIdle
    /\ PipeIdle
    /\ RateIdle
    /\ kv \in SessionLists(Callers)
    /\ opPc = [c \in Callers |->
                 IF \E i \in DOMAIN kv : kv[i].sid = c THEN "present" ELSE "absent"]
    /\ opSnap = [c \in Callers |-> <<>>]
    /\ devOut = [called |-> FALSE, list |-> <<>>, ok |-> TRUE, devices |-> {}]

SetOp(c, st) == opPc' = [opPc EXCEPT ![c] = st]

\* insert_session: RPUSH
OpInsert(c) ==
    /\ opPc[c] = "absent"
    /\ \E d \in Devices : kv' = RPush(kv, Record(c, d))
    /\ SetOp(c, "present")
    /\ UNCHANGED <<opSnap, devOut, lifeVars, extVars, upVars, pipeVars, rateVars>>

\* remove_session: get_sessions
OpRemoveGet(c) ==
    /\ opPc[c] = "present"
    /\ IF GetSessionsOk(kv)
       THEN opSnap' = [opSnap EXCEPT ![c] = kv] /\ SetOp(c, "rsDecide")
       ELSE UNCHANGED opSnap /\ SetOp(c, "failed")
    /\ UNCHANGED <<kv, devOut, lifeVars, extVars, upVars, pipeVars, rateVars>>

\* remove_session: DEL when one record was read, else the fold and LSET
OpRemoveMark(c) ==
    /\ opPc[c] = "rsDecide"
    /\ LET index == RemoveIndex(opSnap[c], c)
       IN IF Len(opSnap[c]) = 1
          THEN kv' = <<>> /\ SetOp(c, "removed")
          ELSE IF LSetOk(kv, index)
          THEN kv' = LSet(kv, index, REMOVED) /\ SetOp(c, "rsLrem")
          ELSE UNCHANGED kv /\ SetOp(c, "failed")
    /\ UNCHANGED <<opSnap, devOut, lifeVars, extVars, upVars, pipeVars, rateVars>>

\* remove_session: LREM key 1 "REMOVED"
OpRemoveLrem(c) ==
    /\ opPc[c] = "rsLrem"
    /\ kv' = LRem1(kv, REMOVED)
    /\ SetOp(c, "removed")
    /\ UNCHANGED <<opSnap, devOut, lifeVars, extVars, upVars, pipeVars, rateVars>>

\* get_devices
OpGetDevices ==
    /\ devOut' = [called |-> TRUE, list |-> kv, ok |-> GetSessionsOk(kv),
                  devices |-> IF GetSessionsOk(kv) THEN GetDevices(kv) ELSE {}]
    /\ UNCHANGED <<kv, opPc, opSnap, lifeVars, extVars, upVars, pipeVars, rateVars>>

InProgress(c) == opPc[c] \in {"rsDecide", "rsLrem"}

\* the calls of different sessions interleave command by command
OpNext ==
    \/ \E c \in Callers :
          \/ OpInsert(c)
          \/ OpRemoveGet(c)
          \/ OpRemoveMark(c)
          \/ OpRemoveLrem(c)
    \/ OpGetDevices

OpSpec == OpInit /\ [][OpNext]_vars

\* every call runs to its end before another call starts
SerialNext ==
    \/ \E c \in Callers :
          /\ \A o \in Callers \ {c} : ~InProgress(o)
          /\ \/ OpInsert(c)
             \/ OpRemoveGet(c)
             \/ OpRemoveMark(c)
             \/ OpRemoveLrem(c)
    \/ /\ \A o \in Callers : ~InProgress(o)
       /\ OpGetDevices

SerialSpec == OpInit /\ [][SerialNext]_vars

\* get_devices applied to any list of up to MaxLen sessions
DevInit ==
    /\ LifeInit
    /\ ExtIdle
    /\ UpIdle
    /\ PipeIdle
    /\ RateIdle
    /\ kv \in SessionLists(1..MaxLen)
    /\ opPc = [c \in {} |-> "absent"]
    /\ opSnap = [c \in {} |-> <<>>]
    /\ devOut = [called |-> FALSE, list |-> <<>>, ok |-> TRUE, devices |-> {}]

DevSpec == DevInit /\ [][OpGetDevices]_vars

\* ------------------------------------------------------------- properties
RecordsOf(s) == {i \in DOMAIN store[UserOf(s)] : store[UserOf(s)][i].sid = s}

\* from the return of insert_session to the first write of its remove_session
Recorded(s) ==
    /\ inserted[s]
    /\ pc[s] \in {"UpdatePresence", "Publish", "Ready", "Setup", "Running",
                 "Cleanup", "RsDecide"}

Active(s) == inserted[s] /\ pc[s] # "Closed"

NoOtherActive(s) ==
    \A t \in Sessions : (t # s /\ UserOf(t) = UserOf(s)) => ~Active(t)

ReachedRunning(s) == pc[s] = "Running" \/ innerRes[s] = "ok"

\* C1: a session that reached Running and is between its insert_session and
\* its remove_session has exactly one record with its session_id in
\* session-{user_id}
C1_ExactlyOneRecord ==
    \A s \in Sessions :
        (ReachedRunning(s) /\ Recorded(s)) => Cardinality(RecordsOf(s)) = 1

\* C2: once the user's last active session has completed Closing, the user
\* has no session record and no presence-{user_id} key
\* no remove_session of a closed session of the user failed
CleanupsSucceeded(u) ==
    \A t \in Sessions :
        (UserOf(t) = u /\ pc[t] = "Closed" /\ inserted[t]) => rsRes[t] = "ok"

C2_LastCloseClearsPresence ==
    \A s \in Sessions :
        (/\ pc[s] = "Closed" /\ inserted[s] /\ NoOtherActive(s)
         /\ CleanupsSucceeded(UserOf(s)))
            => (store[UserOf(s)] = <<>> /\ presence[UserOf(s)] = NoKey)

\* C3: a session that inserted its record and whose inner block has ended,
\* with or without error, eventually has remove_session called for it
C3_RemoveAlwaysRuns ==
    \A s \in Sessions : (inserted[s] /\ innerRes[s] # "none") ~> (rsRes[s] # "none")

C3_Witness ==
    \E s \in Sessions : inserted[s] /\ innerRes[s] = "err" /\ rsRes[s] = "ok"

\* C4: when Closing completes with no session of the user left and a stored
\* status other than Offline, the status is set Offline and a PresenceUpdate
\* with status Offline, no devices and no online_since went to every observer
C4_OfflinePublishedOnLastClose ==
    [][\A s \in Sessions :
        (/\ pc[s] = "FinalClose" /\ pc'[s] = "Closed"
         /\ inserted[s] /\ NoOtherActive(s)
         /\ store[UserOf(s)] = <<>>
         /\ presence[UserOf(s)] # NoKey)
        => (/\ presence'[UserOf(s)] = NoKey
            /\ published'[UserOf(s)] =
                   PresenceEvents(UserOf(s), "Offline", {}, 0))]_vars

NonControl(frames) == SelectSeq(frames, LAMBDA f : ~IsControl(f))

\* C5: the first frame written is Hello, the second non-control frame is
\* Ready, and no broker event and no Pong is written before Ready
C5_HelloThenReady ==
    \A s \in Sessions :
        /\ Len(out[s]) >= 1 => out[s][1].t = "Hello"
        /\ Len(NonControl(out[s])) >= 2 => NonControl(out[s])[2].t = "Ready"
        /\ \A i \in DOMAIN out[s] :
              out[s][i].t \in {"Event", "Pong"}
                  => \E j \in 1..(i - 1) : out[s][j].t = "Ready"

C5_Witness ==
    \E s \in Sessions :
        /\ Len(out[s]) >= 3
        /\ out[s][2].t = "Ready"
        /\ out[s][3].t \in {"Event", "Pong"}


\* C6: a MessageCreate or MessageUpdate whose channel is in hidden_channels
\* when its delivery is processed is not written to the client
C6_HiddenMessageDropped ==
    (upLast.ev.t \in {"MessageCreate", "MessageUpdate"} /\ upLast.ev.id \in hidden)
        => ~upLast.fwd

\* a MessageUpdate of a channel of guild 10 was dropped
C6_Witness ==
    /\ upLast.ev.t = "MessageUpdate"
    /\ upLast.ev.id \in hidden
    /\ ~upLast.fwd
    /\ upPc = "run"

\* C7: a MessageDelete whose channel is in hidden_channels is not written to
\* the client
C7_HiddenDeleteDropped ==
    (upLast.ev.t = "MessageDelete" /\ upLast.ev.id \in hidden) => ~upLast.fwd

HandleEnded(i) == dl[i].st \in {"done", "panicked", "returned"}

FramesOf(i) == {k \in DOMAIN enq : enq[k].t = "Event" /\ enq[k].tag = i}

\* C8: a delivery dropped by the hidden-channel filter is acked to the broker
\* and no frame is sent to the client for it
C8_FilteredStillAcked ==
    \A i \in DOMAIN dl :
        dl[i].st = "returned" => (dl[i].acks = 1 /\ FramesOf(i) = {})

\* C9: every delivery whose handler has ended was acked or nacked, exactly
\* once in total, and no delivery is ever acked or nacked more than once
C9_AckedOrNackedOnce ==
    \A i \in DOMAIN dl :
        /\ dl[i].acks + dl[i].nacks <= 1
        /\ HandleEnded(i) => dl[i].acks + dl[i].nacks = 1

C11_ArrivalOrder ==
    \A i, j \in DOMAIN dl :
        i < j => \A a \in FramesOf(i), b \in FramesOf(j) : a < b

DeviceUnion(list) == {list[i].device : i \in DOMAIN list}

\* C12: get_devices returns the union of the device flags of all records of
\* the list, the empty mask for the empty list
C12_DevicesAreUnion ==
    (devOut.called /\ devOut.ok) => devOut.devices = DeviceUnion(devOut.list)

\* all three flags were set before the last record was read
C12_Witness ==
    /\ devOut.called
    /\ devOut.ok
    /\ Len(devOut.list) = 4
    /\ DeviceUnion(SubSeq(devOut.list, 1, 3)) = Devices
    /\ devOut.devices = Devices

Without(list, sid) == SelectSeq(list, LAMBDA r : r.sid # sid)

Quiescent == \A c \in Callers : ~InProgress(c)

\* C18: whatever the interleaving, no call fails, and once no call is in
\* progress the list holds exactly one record for every session inserted and
\* not removed and none for any other
C18_ConcurrentCallsTolerated ==
    /\ \A c \in Callers : opPc[c] # "failed"
    /\ Quiescent =>
          /\ GetSessionsOk(kv)
          /\ \A c \in Callers :
                Cardinality({i \in DOMAIN kv : kv[i].sid = c})
                    = IF opPc[c] = "present" THEN 1 ELSE 0

\* C19: a remove_session that runs alone on a list holding its record ends
\* with the list it read less that record, the others in their order, and the
\* key gone when none is left
C19_RemoveOwnRecord ==
    [][\A c \in Callers :
        (/\ InProgress(c)
         /\ opPc'[c] \in {"removed", "failed"}
         /\ \E i \in DOMAIN opSnap[c] : opSnap[c][i].sid = c)
        => (opPc'[c] = "removed" /\ kv' = Without(opSnap[c], c))]_vars

\* the middle record of three was removed
C19_Witness ==
    \E c \in Callers :
        /\ opPc[c] = "removed"
        /\ Len(opSnap[c]) = 3
        /\ opSnap[c][2].sid = c
        /\ kv = <<opSnap[c][1], opSnap[c][3]>>

\* C13: a Ping the limiter admits and client_rx dispatches enqueues exactly one Pong, unless tx.send
\* fails and client_rx returns, and a Pong is enqueued only for a Ping
C13_OnePongPerPing ==
    [][/\ nPing' = nPing + 1 =>
            \/ PongCount' = PongCount + 1 /\ cliPc' = cliPc
            \/ enq' = enq /\ cliPc' = "end"
       /\ PongCount' # PongCount =>
            (nPing' = nPing + 1 /\ PongCount' = PongCount + 1)]_vars

\* a Ping was answered and client_rx goes on reading
C13_Witness ==
    /\ nPing = 1
    /\ PongCount = 1
    /\ enq[Len(enq)].t = "Pong"
    /\ cliPc = "run"

\* C14: the limiter refuses no frame before the 1001st of a window of 60
\* seconds
C14_Admits1000 ==
    \A k \in DOMAIN enq :
        (enq[k].t = "Close" /\ enq[k].code = ClosePolicy /\ rlTicks <= RateQuota)
            => rlFrames >= 1001

CloseFramesOf(s, reason) ==
    {i \in DOMAIN out[s] : out[s][i].t = "Close" /\ out[s][i].reason = reason}

\* C15: the Close frame sent for a token that resolves to no user has code
\* 1003
C15_InvalidTokenUnsupported ==
    \A s \in Sessions :
        \A i \in CloseFramesOf(s, "invalid token") :
            out[s][i].code = CloseUnsupported

\* the second frame is the Close of a failed handshake
HandshakeFailed(s) ==
    /\ Len(out[s]) >= 2
    /\ out[s][2].t = "Close"
    /\ out[s][2].reason \in
          {"expected to receive identify event within 5 seconds", "deser error",
           "expected identify event", "invalid token", "db error"}

\* C16: a connection whose handshake failed has inserted no record, has no
\* queue, never runs remove_session, and no step it takes changes a
\* session-* or presence-* key or publishes a presence event
C16_FailedHandshakeNoEffect ==
    /\ [](\A s \in Sessions :
            HandshakeFailed(s) =>
                (/\ pc[s] = "Closed" /\ ~inserted[s]
                 /\ rsRes[s] = "none" /\ queue[s] = "none"))
    /\ [][\A s \in Sessions :
            (HandshakeFailed(s)' /\ pc'[s] # pc[s])
                => UNCHANGED <<store, presence, published, queue>>]_vars

\* an invalid token closed a connection while another session of the same
\* user keeps its record and its presence
C16_Witness ==
    \E s, t \in Sessions :
        /\ s # t
        /\ UserOf(s) = UserOf(t)
        /\ HandshakeFailed(s)
        /\ out[s][2].reason = "invalid token"
        /\ pc[t] = "Running"
        /\ RecordsOf(t) # {}
        /\ presence[UserOf(t)] = EncodeStatus("Online")

\* C17: the Close frame of the Identify timeout has code 1008, follows Hello
\* directly and ends the connection, which never inserts a session
C17_IdentifyTimeoutCloses ==
    \A s \in Sessions :
        \A i \in CloseFramesOf(s, "expected to receive identify event within 5 seconds") :
            /\ out[s][i].code = ClosePolicy
            /\ i = 2
            /\ out[s][1].t = "Hello"
            /\ Len(out[s]) = 2
            /\ pc[s] = "Closed"
            /\ ~inserted[s]
            /\ queue[s] = "none"

C17_Witness ==
    \E s \in Sessions :
        /\ out[s] = <<Frame("Hello"), TimeoutClose>>
        /\ pc[s] = "Closed"

\* C20: when Ready has been written the session queue is declared, bound
\* and consumed
C20_ReadyAfterSetup ==
    \A s \in Sessions :
        (\E i \in DOMAIN out[s] : out[s][i].t = "Ready") => queue[s] = "consuming"

\* ---------------------------------------------------------------- C21
\* C21: after SIGINT no session that reached Running is ended without its
\* teardown: none is dropped by the exit of main
C21_ShutdownDrainsSessions ==
    \A s \in Sessions : queue[s] = "consuming" => pc[s] # "Dropped"

\* ---------------------------------------------------------------- C22
\* C22: get_presence returns the status of the last update_presence for
\* the user, Offline when there was none, and the key presence-{user_id} is
\* absent exactly when that status is Offline
C22_PresenceRoundTrip ==
    /\ gotPresence.called =>
          gotPresence.status =
             (IF gotPresence.last = "none" THEN "Offline" ELSE gotPresence.last)
    /\ \A u \in Users :
          /\ (presence[u] = NoKey) <=> (lastStatus[u] \in {"none", "Offline"})
          /\ (presence[u] = NoKey) <=> (GetPresence(presence[u]) = "Offline")

\* a status other than Offline was read back, and a user that was set to a
\* status has been set to Offline since
C22_Witness ==
    /\ gotPresence.called
    /\ gotPresence.status = "Dnd"
    /\ gotPresence.last = "Dnd"
    /\ lastStatus[gotPresence.user] = "Offline"
    /\ presence[gotPresence.user] = NoKey

\* ---------------------------------------------------------------- C23
\* the publishes of the call that went to recipient r
PublishedTo(r) == {i \in DOMAIN pubLog : pubLog[i].key = ToString(r)}

\* C23: publish_presence_change publishes one PresenceUpdate on the exchange
\* events for every observer and one for the user itself, each with the
\* recipient's id as routing key: never two to one recipient, none to anyone
\* else, and all of them once the call has returned Ok
C23_OnePublishPerRecipient ==
    LET recipients == {pubCall.obs[i] : i \in DOMAIN pubCall.obs} \cup {pubCall.user}
    IN /\ \A i \in DOMAIN pubLog :
             /\ pubLog[i].exchange = "events"
             /\ pubLog[i].event = "PresenceUpdate"
             /\ pubLog[i].user = pubCall.user
             /\ pubLog[i].status = pubCall.status
             /\ \E r \in recipients : pubLog[i].key = ToString(r)
       /\ \A r \in PubUsers : Cardinality(PublishedTo(r)) <= 1
       /\ pubCall.st = "ok" =>
             \A r \in recipients : Cardinality(PublishedTo(r)) = 1

\* a call for a user with two observers has returned Ok
C23_Witness ==
    /\ pubCall.st = "ok"
    /\ Len(pubCall.obs) = 2
    /\ Len(pubLog) = 3

\* ---------------------------------------------------------------- C24
\* C24: the Close frame sent for a first frame that does not decode, or that
\* decodes to a message other than Identify, has code 1003
C24_BadFirstFrameUnsupported ==
    \A s \in Sessions :
        \A i \in CloseFramesOf(s, "deser error")
                  \cup CloseFramesOf(s, "expected identify event") :
            out[s][i].code = CloseUnsupported

\* ---------------------------------------------------------------- C25
\* remove_session has returned before the broker channel is closed, and the
\* channel is closed before the final Close frame is written
ClosingInOrder(s) ==
    /\ pc[s] \in {"AmqpClose", "FinalClose"} => rsRes[s] \in {"ok", "err"}
    /\ (Len(out[s]) > 0 /\ out[s][Len(out[s])].reason \in {"error", "client disconnected"})
          => (pc[s] = "Closed" /\ rsRes[s] \in {"ok", "err"})

\* Running was left because update_presence failed
RunningFailed(s) == CloseFramesOf(s, "redis error") # {}

\* C25: Closing runs remove_session, then the close of the broker channel,
\* then the final Close frame, and that frame is Normal when Running ended
\* without error and Abnormal otherwise
C25_ClosingOrderAndCode ==
    \A s \in Sessions :
        /\ ClosingInOrder(s)
        /\ (pc[s] = "Closed" /\ rsRes[s] # "none") =>
              out[s][Len(out[s])].code =
                 (IF innerRes[s] = "err" \/ RunningFailed(s)
                  THEN CloseAbnormal ELSE CloseNormal)

\* ---------------------------------------------------------------- C26
\* the exchanges bound after the events of q from position i on, starting
\* from the set bound
RECURSIVE BoundAfter(_, _, _)
BoundAfter(bound, q, i) ==
    IF i > Len(q) THEN bound
    ELSE BoundAfter(
            IF q[i].t \in {"GuildCreate", "ChannelCreateDm"} THEN bound \cup {q[i].id}
            ELSE IF q[i].t \in {"GuildRemove", "ChannelDelete"} THEN bound \ {q[i].id}
            ELSE bound,
            q, i + 1)

\* C26: between two deliveries the bindings of the session queue are
\* (events, user_id) and (x, "all") for exactly the exchanges x bound at
\* setup or by GuildCreate or DM ChannelCreate and not unbound since by
\* GuildRemove or ChannelDelete
C26_BindingsFollowEvents ==
    huPc = "consume" =>
        huBinds = {Binding("events", HuUserKey)}
                  \cup {Binding(ToString(x), "all") : x \in BoundAfter(huGuilds, huQ, 1)}

\* ---------------------------------------------------------------- C27
\* C27: when an event with a topology side-effect has been enqueued for the
\* client, its subscribe or unbind has completed: the exchange of the event
\* enqueued last is bound after GuildCreate or DM ChannelCreate and not bound
\* after GuildRemove or ChannelDelete
C27_EffectBeforeEnqueue ==
    huQ # <<>> =>
        LET ev == huQ[Len(huQ)]
            isBound == \E b \in huBinds : b.x = ToString(ev.id)
        IN /\ ev.t \in {"GuildCreate", "ChannelCreateDm"} => isBound
           /\ ev.t \in {"GuildRemove", "ChannelDelete"} => ~isBound

\* ---------------------------------------------------------------- C28
\* C28: a delivery whose payload does not decode ends the upstream loop of
\* the session, which then handles no later delivery
C28_UndecodableEndsUpstream ==
    upLast.ev.t = "Undecodable" => upPc = "end"

\* ---------------------------------------------------------------- C29
\* C29: once a RoleCreate or RoleUpdate of a guild the user does not own
\* has been handled, each channel of the fetched guild is hidden exactly when
\* its recomputed permission lacks VIEW_CHANNEL
C29_RoleRecomputesHidden ==
    (upLast.ev.t \in {"RoleCreate", "RoleUpdate"} /\ upLast.ev.id \notin OwnedGuilds)
        => \A c \in upLast.calc : (c \in hidden) <=> (c \notin upLast.view)

\* ---------------------------------------------------------------- C30
\* C30: handling a ChannelUpdate of a channel in a guild the user does not
\* own leaves that channel hidden exactly when the recomputed permission
\* lacks VIEW_CHANNEL, inserting or removing it, and changes the membership
\* of no other channel
C30_ChannelUpdateSetsHidden ==
    [][(/\ upLast'.ev.t = "ChannelUpdate"
        /\ GuildOf(upLast'.ev.id) \notin OwnedGuilds
        /\ upLast'.calc # {})
        => /\ (upLast'.ev.id \in hidden') <=> (upLast'.ev.id \notin upLast'.view)
           /\ hidden' \ {upLast'.ev.id} = hidden \ {upLast'.ev.id}]_vars

\* an update that allows the channel was forwarded while another channel
\* stays hidden, and one that denies its channel was handled
C30_Witness ==
    /\ upLast.ev.t = "ChannelUpdate"
    /\ GuildOf(upLast.ev.id) \notin OwnedGuilds
    /\ upLast.calc = {upLast.ev.id}
    /\ upLast.view = {upLast.ev.id}
    /\ upLast.fwd
    /\ upLast.ev.id \notin hidden
    /\ hidden # {}

\* ---------------------------------------------------------------- C31
\* C31: no channel of a guild the session user owns is in the hidden set,
\* whatever the seed, ChannelCreate, ChannelUpdate, RoleCreate and RoleUpdate
\* computed, and a message event of such a guild is not filtered: it is
\* written unless the write itself fails and ends the loop
C31_OwnedGuildNeverHidden ==
    /\ \A c \in hidden : GuildOf(c) \notin OwnedGuilds
    /\ (/\ upLast.ev.t \in {"MessageCreate", "MessageUpdate"}
        /\ GuildOf(upLast.ev.id) \in OwnedGuilds
        /\ upPc = "run")
        => upLast.fwd

\* a ChannelCreate of an owned guild whose overwrite denies VIEW_CHANNEL was
\* handled and written while other channels are hidden
C31_Witness ==
    /\ upLast.ev.t = "ChannelCreate"
    /\ GuildOf(upLast.ev.id) \in OwnedGuilds
    /\ upLast.ev.ow = "deny"
    /\ upLast.fwd
    /\ hidden # {}
    /\ upLast.ev.id \notin hidden

\* ---------------------------------------------------------------- C32
\* C32: a session does not stay in Running for ever once its client has gone
\* silent: the read of ws_listener times out and the session goes on to
\* its cleanup
C32_SilenceEndsRunning ==
    \A s \in Sessions : (pc[s] = "Running") ~> (pc[s] # "Running")

\* ---------------------------------------------------------------- C33
\* C33: once ws_listener has read a frame whose decoding gives a Close error,
\* a Close frame with code 1003 is among the frames sent and the session has
\* left Running
C33_DecodeCloseEndsPipeline ==
    \A s \in Sessions :
        wsLast[s].kind = "DecodeClose"
            => /\ pc[s] # "Running"
               /\ \E i \in DOMAIN out[s] :
                     out[s][i].t = "Close" /\ out[s][i].code = CloseUnsupported

\* ---------------------------------------------------------------- C34
\* C34: the presence ws_listener builds for UpdatePresence{status: Some(s)}
\* has no online_since exactly when s is Offline, and otherwise the
\* online_since of the first record of the user's list
C34_OnlineSinceNoneIffOffline ==
    \A s \in Sessions :
        (wsLast[s].kind = "UpdatePresence" /\ wsLast[s].res \in {"ok", "PublishFailed"})
            => (wsLast[s].since = 0 <=> wsLast[s].status = "Offline")

\* ---------------------------------------------------------------- C35
\* C35: once publish_presence_change has failed for a frame of a running
\* session, ws_listener has ended and the session has left Running for its
\* teardown
C35_PublishFailureEndsSession ==
    \A s \in Sessions : wsLast[s].res = "PublishFailed" => pc[s] # "Running"

\* ---------------------------------------------------------------- C36
\* C36: a call of shutdown for a session id returns true exactly when a
\* sender is registered for the id and its send succeeded, which is when a
\* receiver of that channel is alive; the receivers of that id then see the
\* notification, and the receivers of no other id see anything new
C36_ShutdownNotifiesOwnSession ==
    [][snLast'.seq # snLast.seq =>
        LET id == snLast'.id
        IN /\ snLast'.ret <=> (id \in snMap /\ snRx[id] > 0)
           /\ snVal'[id] <=> (snVal[id] \/ snLast'.ret)
           /\ \A o \in NotifyIds \ {id} : snVal'[o] = snVal[o]]_vars

\* a shutdown notified the receivers of its session while the receivers of
\* another registered session saw nothing
C36_Witness ==
    /\ snLast.called
    /\ snLast.ret
    /\ snVal[snLast.id]
    /\ \E o \in NotifyIds \ {snLast.id} : o \in snMap /\ snRx[o] > 0 /\ ~snVal[o]

\* ---------------------------------------------------------------- C37
\* C37: when the list remove_session read holds no record with the caller's
\* session_id, the command it issues next leaves the user's list as it was:
\* no record of another session is overwritten and the key is not deleted
C37_StrayRemoveLeavesList ==
    [][\A s \in Sessions :
        (/\ pc[s] = "RsDecide"
         /\ pc'[s] # "RsDecide"
         /\ \A i \in DOMAIN rsSnap[s] : rsSnap[s][i].sid # s)
        => store'[UserOf(s)] = store[UserOf(s)]]_vars

\* ---------------------------------------------------------------- C38
\* C38: no step of the teardown of a session whose insert_session failed
\* takes away the record of another session of the same user that is
\* inserted and has not begun its own teardown
C38_FailedInsertSparesOthers ==
    [][\A s, t \in Sessions :
        (/\ s # t
         /\ UserOf(s) = UserOf(t)
         /\ ~inserted[s]
         /\ pc[s] \in {"Cleanup", "RsDecide", "RsLrem"}
         /\ pc'[s] # pc[s]
         /\ inserted[t]
         /\ pc[t] \in {"UpdatePresence", "Publish", "Ready", "Setup", "Running"}
         /\ RecordsOf(t) # {})
        => \E i \in DOMAIN store'[UserOf(t)] : store'[UserOf(t)][i].sid = t]_vars

\* ---------------------------------------------------------------- C39
\* C39: the frames sent on a connection hold at most one Close frame, and
\* nothing follows it
C39_AtMostOneClose ==
    \A s \in Sessions :
        \A i \in DOMAIN out[s] : out[s][i].t = "Close" => i = Len(out[s])

\* ---------------------------------------------------------------- C40
\* C40: a guild ChannelCreate or ChannelUpdate of a guild the user does not
\* own is not written to the client when the recomputed permission of its
\* channel lacks VIEW_CHANNEL, and is written when the permission contains
\* it, unless the write itself fails and ends the loop
C40_UnviewableChannelNotForwarded ==
    (/\ upLast.ev.t \in {"ChannelCreate", "ChannelUpdate"}
     /\ GuildOf(upLast.ev.id) \notin OwnedGuilds
     /\ upLast.calc = {upLast.ev.id})
        => /\ upLast.ev.id \notin upLast.view => ~upLast.fwd
           /\ (upLast.ev.id \in upLast.view /\ upPc = "run") => upLast.fwd

\* a ChannelCreate whose channel lacks VIEW_CHANNEL was handled: the channel
\* is hidden, the event was not written and the loop goes on
C40_Witness ==
    /\ upLast.ev.t = "ChannelCreate"
    /\ GuildOf(upLast.ev.id) \notin OwnedGuilds
    /\ upLast.calc = {upLast.ev.id}
    /\ upLast.view = {}
    /\ ~upLast.fwd
    /\ upLast.ev.id \in hidden
    /\ upPc = "run"

====
